---- MODULE Spec2Model ----
(***************************************************************************)
(* The core-data Mongo client (package clients): CRUD over the three       *)
(* collections "event", "reading" and "valueDescriptor".  A collection is  *)
(* the set of its documents; every handler is one action, except the two   *)
(* handlers that issue two store operations, which are also given split    *)
(* at the store operations.                                                *)
(***************************************************************************)
EXTENDS Integers, Sequences, FiniteSets, TLC

VARIABLES
    events,     \* the "event" collection: MongoEvent documents (readings as references)
    readings,   \* the "reading" collection
    vds,        \* the "valueDescriptor" collection
    now,        \* time.Now() in milliseconds
    nextId,     \* the last object id handed out (bson.NewObjectId, store-generated _id)
    call,       \* the last call that returned: operation, error, result
    pc,         \* per session handle: the store operation the handler is at
    loc         \* per session handle: the handler's local variables

vars == <<events, readings, vds, now, nextId, call, pc, loc>>

-----------------------------------------------------------------------------
(* Bounds *)
MaxId       == 2    \* object ids that can be handed out
MaxTime     == 2    \* the clock runs from 1 to MaxTime
MaxReadings == 1    \* readings carried by an event passed to AddEvent / UpdateEvent
MaxLimit    == 1    \* largest limit passed to a list operation
NumHandles  == 2    \* session copies in use at once in ConcSpec

Handles == 1..NumHandles
NoId    == 0        \* the zero bson.ObjectId ("")
FirstId == 9 + 1    \* object ids are handed out in order from FirstId ("...0a")
Ids     == FirstId..(FirstId + MaxId - 1)
Times   == 1..MaxTime

Devices == {"d1", "d2"}
Names   == {"temp", "hum"}

\* The error kinds returned to callers; OK is the nil error
OK                 == "nil"
ErrNotFound        == "ErrNotFound"
ErrNotUnique       == "ErrNotUnique"
ErrInvalidObjectId == "ErrInvalidObjectId"
ErrStore           == "store error"     \* any other error of the store, passed through

-----------------------------------------------------------------------------
(* Identifier strings: bson.IsObjectIdHex / bson.ObjectIdHex.  A string is *)
(* a sequence of characters; object id n is the 12-byte value n.           *)

HexChars == <<"0","1","2","3","4","5","6","7","8","9","a","b","c","d","e","f">>

DigitVal(c) ==
    IF \E k \in 1..16 : HexChars[k] = c
    THEN (CHOOSE k \in 1..16 : HexChars[k] = c) - 1
    ELSE CASE c = "A" -> 10 [] c = "B" -> 11 [] c = "C" -> 12
           [] c = "D" -> 13 [] c = "E" -> 14 [] c = "F" -> 15
           [] OTHER -> -1

\* bson.IsObjectIdHex(s): 24 characters, all hexadecimal digits
IsObjectIdHex(s) == Len(s) = 24 /\ \A k \in 1..Len(s) : DigitVal(s[k]) >= 0

RECURSIVE HexValue(_, _)
HexValue(s, k) == IF k = 0 THEN 0 ELSE 16 * HexValue(s, k - 1) + DigitVal(s[k])

\* bson.ObjectIdHex(s): the object id a well-formed string denotes
ObjectIdHex(s) == HexValue(s, Len(s))

\* ObjectId.Hex(): the 24-digit lower-case string of object id n
Hex(n) == [k \in 1..24 |-> IF k = 24 THEN HexChars[(n % 16) + 1]
                           ELSE IF k = 23 THEN HexChars[((n \div 16) % 16) + 1]
                           ELSE "0"]

UpperHex(n) == [k \in 1..24 |-> IF k = 24 /\ n % 16 >= 10
                                THEN <<"A","B","C","D","E","F">>[(n % 16) - 9]
                                ELSE Hex(n)[k]]

NotHex   == <<"n","o","t","-","a","-","h","e","x","-","i","d">>
ShortHex == [k \in 1..23 |-> "0"]
BadDigit == [k \in 1..24 |-> IF k = 24 THEN "g" ELSE "0"]

\* The id strings callers pass: every id's string, one in upper case, and
\* malformed ones
IdStrings == {Hex(n) : n \in Ids} \cup {UpperHex(FirstId)}
             \cup {NotHex, ShortHex, BadDigit}

-----------------------------------------------------------------------------
(* Value descriptors *)

\* What a caller puts in a models.ValueDescriptor besides id, name and times
VDPayloads == { [uomLabel |-> "C", type |-> "F", labels |-> {"indoor"}],
                [uomLabel |-> "F", type |-> "I", labels |-> {}] }

VDValue(id, name, p, created, modified) ==
    [id |-> id, name |-> name, uomLabel |-> p.uomLabel, type |-> p.type,
     labels |-> p.labels, created |-> created, modified |-> modified]

\* Find(bson.M{"name": name}) on the valueDescriptor collection
VDsByName(coll, name) == {d \in coll : d.name = name}

\* Find(bson.M{"_id": id})
DocsById(coll, id) == {d \in coll : d.id = id}

\* getValueDescriptor(q): the outcomes of Find(q).One(&v), q matching `matches`
getValueDescriptor(matches) ==
    {[err |-> ErrStore, doc |-> VDValue(NoId, "", [uomLabel |-> "", type |-> "", labels |-> {}], 0, 0)]}
    \cup (IF matches = {}
          THEN {[err |-> ErrNotFound, doc |-> VDValue(NoId, "", [uomLabel |-> "", type |-> "", labels |-> {}], 0, 0)]}
          ELSE {[err |-> OK, doc |-> d] : d \in matches})

\* Faulty variant: the selector is on the id, not the name
UpsertMatchesById(coll, v) == DocsById(coll, v.id)

\* Upsert(bson.M{"name": v.Name}, v): the documents the selector matches
UpsertMatches(coll, v) == VDsByName(coll, v.name)

\* Upsert(selector, v) with `fresh` the _id the store would give an inserted document:
\* a matched document is replaced by v (keeping its _id, v.Id being empty),
\* otherwise v is inserted; info.UpsertedId is set only on insert
Upsert(coll, v, fresh) ==
    {[coll |-> coll, upserted |-> NoId, err |-> ErrStore]}
    \cup (IF UpsertMatches(coll, v) # {}
          THEN {[coll |-> (coll \ {d}) \cup {[v EXCEPT !.id = d.id]},
                 upserted |-> NoId, err |-> OK] : d \in UpsertMatches(coll, v)}
          ELSE {[coll |-> coll \cup {[v EXCEPT !.id = fresh]},
                 upserted |-> fresh, err |-> OK]})

\* UpdateId(v.Id, v): replace the document whose _id is v.Id
UpdateId(coll, v) ==
    {[coll |-> coll, err |-> ErrStore]}
    \cup (IF DocsById(coll, v.id) = {}
          THEN {[coll |-> coll, err |-> ErrNotFound]}
          ELSE {[coll |-> (coll \ DocsById(coll, v.id)) \cup {v}, err |-> OK]})

\* Faulty variant: the document is reported removed and stays
RemoveIdKeeps(coll, id) ==
    {[coll |-> coll, err |-> ErrStore]}
    \cup (IF DocsById(coll, id) = {}
          THEN {[coll |-> coll, err |-> ErrNotFound]}
          ELSE {[coll |-> coll, err |-> OK]})

\* RemoveId(id)
RemoveId(coll, id) ==
    {[coll |-> coll, err |-> ErrStore]}
    \cup (IF DocsById(coll, id) = {}
          THEN {[coll |-> coll, err |-> ErrNotFound]}
          ELSE {[coll |-> coll \ DocsById(coll, id), err |-> OK]})

\* RemoveAll(nil)
RemoveAll(coll) == {[coll |-> coll, err |-> ErrStore], [coll |-> {}, err |-> OK]}

\* Faulty variant: no check of the id string
deleteByIdNoCheck(idstr, coll) == RemoveId(coll, ObjectIdHex(idstr))

\* deleteById(id, col): the id check, then RemoveId
deleteById(idstr, coll) ==
    IF ~IsObjectIdHex(idstr)
    THEN {[coll |-> coll, err |-> ErrInvalidObjectId]}
    ELSE RemoveId(coll, ObjectIdHex(idstr))

\* The get-by-id operation of the collection a delete-by-id operation works on
GetOps == {"EventById", "ReadingById", "ValueDescriptorById"}
DeleteOps == {"DeleteEventById", "DeleteReadingById", "DeleteValueDescriptorById"}
DeleteOf(getop) ==
    CASE getop = "EventById" -> "DeleteEventById"
      [] getop = "ReadingById" -> "DeleteReadingById"
      [] getop = "ValueDescriptorById" -> "DeleteValueDescriptorById"

\* History: this call is a get-by-id of the id that the call before it, a
\* delete-by-id on the same collection, removed
FollowsDelete(op, arg) ==
    /\ op \in GetOps
    /\ call.op = DeleteOf(op)
    /\ call.err = OK
    /\ IsObjectIdHex(arg)
    /\ ObjectIdHex(arg) = ObjectIdHex(call.arg)

\* A call returns: what the last call was and what it returned (arg: the id
\* string of an id-keyed operation, the limit of a list operation, else NoId)
Return(op, arg, err, res) ==
    call' = [op |-> op, arg |-> arg, err |-> err, res |-> res,
             afterDelete |-> FollowsDelete(op, arg)]

\* The values of models.ValueDescriptor callers pass to AddValueDescriptor:
\* no id (the store assigns it)
AddVDInputs == {VDValue(NoId, n, p, 0, 0) : n \in Names, p \in VDPayloads}

\* ... and to UpdateValueDescriptor: any id, any name
UpdatePayload  == [uomLabel |-> "K", type |-> "F", labels |-> {"indoor", "lab"}]
UpdateVDInputs == {VDValue(i, n, UpdatePayload, 0, 0) : i \in Ids \cup {NoId}, n \in Names}

AddValueDescriptor(h, vin) ==
    /\ pc[h] = "idle"
    /\ LET v == [vin EXCEPT !.created = now] IN
       \E o \in Upsert(vds, v, nextId + 1) :
          /\ o.upserted # NoId => nextId + 1 \in Ids
          /\ vds' = o.coll
          /\ nextId' = IF o.upserted # NoId THEN nextId + 1 ELSE nextId
          /\ IF o.err # OK THEN Return("AddValueDescriptor", NoId, o.err, v.id)
             ELSE IF o.upserted = NoId
                  THEN Return("AddValueDescriptor", NoId, ErrNotUnique, v.id)
                  ELSE Return("AddValueDescriptor", NoId, OK, o.upserted)
    /\ UNCHANGED <<events, readings, now, pc, loc>>

\* Faulty variant: the ids are not compared
NameCheckNoCompare(coll, v) ==
    {IF g.err = ErrNotFound THEN [next |-> "update", err |-> OK]
     ELSE IF g.err # OK THEN [next |-> "return", err |-> g.err]
     ELSE [next |-> "update", err |-> OK]
       : g \in getValueDescriptor(VDsByName(coll, v.name))}

\* UpdateValueDescriptor, lines 491-502: is the name owned by another document?
\* "return" with the error returned, or "update" to go on to UpdateId
NameCheck(coll, v) ==
    {IF g.err = ErrNotFound THEN [next |-> "update", err |-> OK]
     ELSE IF g.err # OK THEN [next |-> "return", err |-> g.err]
     ELSE IF g.doc.id # v.id THEN [next |-> "return", err |-> ErrNotUnique]
     ELSE [next |-> "update", err |-> OK]
       : g \in getValueDescriptor(VDsByName(coll, v.name))}

\* UpdateValueDescriptor as one step (no other call in between)
UpdateValueDescriptor(h, vin) ==
    /\ pc[h] = "idle"
    /\ \E c \in NameCheck(vds, vin) :
          IF c.next = "return"
          THEN /\ UNCHANGED vds
               /\ Return("UpdateValueDescriptor", NoId, c.err, NoId)
          ELSE \E o \in UpdateId(vds, [vin EXCEPT !.modified = now]) :
                  /\ vds' = o.coll
                  /\ Return("UpdateValueDescriptor", NoId, o.err, NoId)
    /\ UNCHANGED <<events, readings, now, nextId, pc, loc>>

DeleteValueDescriptorById(h, idstr) ==
    /\ pc[h] = "idle"
    /\ IF ~IsObjectIdHex(idstr)
       THEN /\ UNCHANGED vds
            /\ Return("DeleteValueDescriptorById", idstr, ErrInvalidObjectId, NoId)
       ELSE \E o \in deleteById(idstr, vds) :
               /\ vds' = o.coll
               /\ Return("DeleteValueDescriptorById", idstr, o.err, NoId)
    /\ UNCHANGED <<events, readings, now, nextId, pc, loc>>

ValueDescriptorById(h, idstr) ==
    /\ pc[h] = "idle"
    /\ IF ~IsObjectIdHex(idstr)
       THEN Return("ValueDescriptorById", idstr, ErrInvalidObjectId, NoId)
       ELSE \E g \in getValueDescriptor(DocsById(vds, ObjectIdHex(idstr))) :
               Return("ValueDescriptorById", idstr, g.err, g.doc)
    /\ UNCHANGED <<events, readings, vds, now, nextId, pc, loc>>

\* ValueDescriptors(): getValueDescriptors(nil), all the documents
ValueDescriptors(h) ==
    /\ pc[h] = "idle"
    /\ \/ Return("ValueDescriptors", NoId, ErrStore, {})
       \/ Return("ValueDescriptors", NoId, OK, vds)
    /\ UNCHANGED <<events, readings, vds, now, nextId, pc, loc>>

ScrubAllValueDescriptors(h) ==
    /\ pc[h] = "idle"
    /\ \E o \in RemoveAll(vds) :
          /\ vds' = o.coll
          /\ Return("ScrubAllValueDescriptors", NoId, o.err, NoId)
    /\ UNCHANGED <<events, readings, now, nextId, pc, loc>>

-----------------------------------------------------------------------------
(* Events and readings *)

ReadingValue(id, name, device, created, modified) ==
    [id |-> id, name |-> name, device |-> device, value |-> "72",
     created |-> created, modified |-> modified]

EventValue(id, device, created, modified, rs) ==
    [id |-> id, device |-> device, created |-> created, modified |-> modified,
     readings |-> rs]

SeqsUpTo(S, n) == UNION {[1..k -> S] : k \in 0..n}

Min(a, b) == IF a <= b THEN a ELSE b

\* The readings callers put in an event: with a device and a creation time of
\* their own, which AddEvent overwrites
ReadingInputs == { ReadingValue(NoId, "temp", "d1", 0, 0),
                   ReadingValue(NoId, "hum", "d2", MaxTime, 0) }

\* The events callers pass to AddEvent
AddEventInputs == {EventValue(NoId, d, 0, 0, rs) :
                      d \in Devices, rs \in SeqsUpTo(ReadingInputs, MaxReadings)}

\* ... and to UpdateEvent: any id, and no reading or one stored reading
UpdateEventInputs == {EventValue(i, d, 0, 0, rs) :
                         i \in Ids, d \in Devices,
                         rs \in {<< >>} \cup {<<r>> : r \in readings}}

\* MongoEvent{Event: e} as it is stored: the readings become references to the
\* documents of the reading collection
ToMongoEvent(e) ==
    [id |-> e.id, device |-> e.device, created |-> e.created, modified |-> e.modified,
     readings |-> [k \in 1..Len(e.readings) |-> e.readings[k].id]]

\* A stored MongoEvent as it is read: every reference is looked up in the
\* reading collection, and the read fails if one is missing
CanDeref(me, rcoll) == \A k \in 1..Len(me.readings) : DocsById(rcoll, me.readings[k]) # {}

FromMongoEvent(me, rcoll) ==
    [me EXCEPT !.readings = [k \in 1..Len(me.readings) |->
                                CHOOSE r \in rcoll : r.id = me.readings[k]]]

NoEvent == EventValue(NoId, "", 0, 0, << >>)
NoReading == ReadingValue(NoId, "", "", 0, 0)

\* Faulty variant: the device of the reading is left as the caller put it
StampReadingKeepDevice(r, e, id) == [r EXCEPT !.id = id, !.created = e.created]

\* AddEvent lines 115-117: reading i of event e gets a new id, e's creation time
\* and e's device
StampReading(r, e, id) == [r EXCEPT !.id = id, !.created = e.created, !.device = e.device]

\* Insert(docs...): all the documents, or an error after some of them
InsertAll(coll, docs) ==
    {[coll |-> coll \cup {docs[k] : k \in 1..Len(docs)}, err |-> OK]}
    \cup {[coll |-> coll \cup {docs[k] : k \in 1..j}, err |-> ErrStore] :
             j \in 0..(Len(docs) - 1)}

\* Insert(doc)
Insert(coll, doc) ==
    {[coll |-> coll \cup {doc}, err |-> OK], [coll |-> coll, err |-> ErrStore]}

\* A handler is past its first store operation and has not returned
Running(op) ==
    call' = [op |-> op, arg |-> NoId, err |-> "running", res |-> NoId,
             afterDelete |-> FALSE]

\* Faulty variant: the error of the readings insert is ignored
AfterReadingsInsertIgnoreErr(err) == "InsertEvent"

\* AddEvent lines 121-123: return on an error of the readings insert
AfterReadingsInsert(err) == IF err # OK THEN "return" ELSE "InsertEvent"

\* AddEvent up to the insert of the readings (lines 105-124)
AddEventReadings(h, ein) ==
    /\ pc[h] = "idle"
    /\ LET n  == Len(ein.readings)
           e0 == [ein EXCEPT !.created = now, !.id = nextId + 1]
           e  == [e0 EXCEPT !.readings =
                     [k \in 1..n |-> StampReading(ein.readings[k], e0, nextId + 1 + k)]]
       IN /\ nextId + 1 + n \in Ids
          /\ nextId' = nextId + 1 + n
          /\ IF n # 0
             THEN \E o \in InsertAll(readings, e.readings) :
                     /\ readings' = o.coll
                     /\ IF AfterReadingsInsert(o.err) = "return"
                        THEN /\ Return("AddEvent", NoId, o.err, e.id)
                             /\ UNCHANGED <<pc, loc>>
                        ELSE /\ Running("AddEvent")
                             /\ pc' = [pc EXCEPT ![h] = "InsertEvent"]
                             /\ loc' = [loc EXCEPT ![h] = e]
             ELSE /\ UNCHANGED readings
                  /\ Running("AddEvent")
                  /\ pc' = [pc EXCEPT ![h] = "InsertEvent"]
                  /\ loc' = [loc EXCEPT ![h] = e]
    /\ UNCHANGED <<events, vds, now>>

\* ... and from there to its return (lines 126-135)
AddEventInsert(h) ==
    /\ pc[h] = "InsertEvent"
    /\ \E o \in Insert(events, ToMongoEvent(loc[h])) :
          /\ events' = o.coll
          /\ Return("AddEvent", NoId, o.err, loc[h].id)
    /\ pc' = [pc EXCEPT ![h] = "idle"]
    /\ loc' = [loc EXCEPT ![h] = NoId]
    /\ UNCHANGED <<readings, vds, now, nextId>>

UpdateEvent(h, ein) ==
    /\ pc[h] = "idle"
    /\ LET e == [ein EXCEPT !.modified = now] IN
       \E o \in UpdateId(events, ToMongoEvent(e)) :
          /\ events' = o.coll
          /\ Return("UpdateEvent", NoId, o.err, NoId)
    /\ UNCHANGED <<readings, vds, now, nextId, pc, loc>>

\* getEvent(q): Find(q).One(&me), the references of me looked up
getEvent(matches, rcoll) ==
    {[err |-> ErrStore, doc |-> NoEvent]}
    \cup (IF matches = {}
          THEN {[err |-> ErrNotFound, doc |-> NoEvent]}
          ELSE UNION {IF CanDeref(me, rcoll)
                      THEN {[err |-> OK, doc |-> FromMongoEvent(me, rcoll)]}
                      ELSE {[err |-> ErrNotFound, doc |-> NoEvent]} : me \in matches})

\* getReading(q)
getReading(matches) ==
    {[err |-> ErrStore, doc |-> NoReading]}
    \cup (IF matches = {}
          THEN {[err |-> ErrNotFound, doc |-> NoReading]}
          ELSE {[err |-> OK, doc |-> r] : r \in matches})

EventById(h, idstr) ==
    /\ pc[h] = "idle"
    /\ IF ~IsObjectIdHex(idstr)
       THEN Return("EventById", idstr, ErrInvalidObjectId, NoEvent)
       ELSE \E g \in getEvent(DocsById(events, ObjectIdHex(idstr)), readings) :
               Return("EventById", idstr, g.err, g.doc)
    /\ UNCHANGED <<events, readings, vds, now, nextId, pc, loc>>

ReadingById(h, idstr) ==
    /\ pc[h] = "idle"
    /\ IF ~IsObjectIdHex(idstr)
       THEN Return("ReadingById", idstr, ErrInvalidObjectId, NoReading)
       ELSE \E g \in getReading(DocsById(readings, ObjectIdHex(idstr))) :
               Return("ReadingById", idstr, g.err, g.doc)
    /\ UNCHANGED <<events, readings, vds, now, nextId, pc, loc>>

DeleteEventById(h, idstr) ==
    /\ pc[h] = "idle"
    /\ \E o \in deleteById(idstr, events) :
          /\ events' = o.coll
          /\ Return("DeleteEventById", idstr, o.err, NoId)
    /\ UNCHANGED <<readings, vds, now, nextId, pc, loc>>

DeleteReadingById(h, idstr) ==
    /\ pc[h] = "idle"
    /\ IF ~IsObjectIdHex(idstr)
       THEN /\ UNCHANGED readings
            /\ Return("DeleteReadingById", idstr, ErrInvalidObjectId, NoId)
       ELSE \E o \in deleteById(idstr, readings) :
               /\ readings' = o.coll
               /\ Return("DeleteReadingById", idstr, o.err, NoId)
    /\ UNCHANGED <<events, vds, now, nextId, pc, loc>>

\* Find(q).Limit(limit): the store's cut of the matching documents
Limited(matches, limit) ==
    {S \in SUBSET matches : Cardinality(S) = Min(limit, Cardinality(matches))}

\* getEventsLimit(q, limit), q matching `matches`
getEventsLimit(matches, limit, rcoll) ==
    IF limit = 0
    THEN {[err |-> OK, res |-> {}]}
    ELSE {[err |-> ErrStore, res |-> {}]}
         \cup {IF \A me \in S : CanDeref(me, rcoll)
               THEN [err |-> OK, res |-> {FromMongoEvent(me, rcoll) : me \in S}]
               ELSE [err |-> ErrNotFound, res |-> {}] : S \in Limited(matches, limit)}

\* Faulty variant: no check for limit 0, which the store takes as "no limit"
getReadingsLimitNoZero(matches, limit) ==
    {[err |-> ErrStore, res |-> {}]}
    \cup {[err |-> OK, res |-> S] :
             S \in IF limit = 0 THEN {matches} ELSE Limited(matches, limit)}

\* getReadingsLimit(q, limit), q matching `matches`
getReadingsLimit(matches, limit) ==
    IF limit = 0
    THEN {[err |-> OK, res |-> {}]}
    ELSE {[err |-> ErrStore, res |-> {}]}
         \cup {[err |-> OK, res |-> S] : S \in Limited(matches, limit)}

Limits == 0..MaxLimit

ListReturn(h, op, limit, outcomes) ==
    /\ pc[h] = "idle"
    /\ \E o \in outcomes : Return(op, limit, o.err, o.res)
    /\ UNCHANGED <<events, readings, vds, now, nextId, pc, loc>>

EventsForDeviceLimit(h, id, limit) ==
    ListReturn(h, "EventsForDeviceLimit", limit,
               getEventsLimit({e \in events : e.device = id}, limit, readings))

EventsByCreationTime(h, startTime, endTime, limit) ==
    ListReturn(h, "EventsByCreationTime", limit,
               getEventsLimit({e \in events : e.created >= startTime /\ e.created <= endTime},
                              limit, readings))

\* getEvents(q), q matching `matches`: Find(q).All(&me), no limit
getEvents(matches, rcoll) ==
    {[err |-> ErrStore, res |-> {}]}
    \cup {IF \A me \in matches : CanDeref(me, rcoll)
          THEN [err |-> OK, res |-> {FromMongoEvent(me, rcoll) : me \in matches}]
          ELSE [err |-> ErrNotFound, res |-> {}]}

\* The ages callers pass to EventsOlderThanAge, in clock units
Ages == 0..MaxTime

\* Faulty variant: "$lte" in place of "$lt"
OlderThanOrAt(coll, expireDate) == {e \in coll : e.created <= expireDate}

\* bson.M{"created": bson.M{"$lt": expireDate}}
OlderThan(coll, expireDate) == {e \in coll : e.created < expireDate}

\* The event the call just before this one added, if that call was a
\* successful AddEvent (else NoId)
JustAdded == IF call.op = "AddEvent" /\ call.err = OK THEN call.res ELSE NoId

\* EventsOlderThanAge(age): the clock is read again here, at the call
EventsOlderThanAge(h, age) ==
    /\ pc[h] = "idle"
    /\ LET expireDate == now - age IN
       \E o \in getEvents(OlderThan(events, expireDate), readings) :
          call' = [op |-> "EventsOlderThanAge", arg |-> age, err |-> o.err,
                   res |-> o.res, afterDelete |-> FALSE, afterAdd |-> JustAdded]
    /\ UNCHANGED <<events, readings, vds, now, nextId, pc, loc>>

ReadingsByDevice(h, id, limit) ==
    ListReturn(h, "ReadingsByDevice", limit,
               getReadingsLimit({r \in readings : r.device = id}, limit))

ReadingsByValueDescriptor(h, name, limit) ==
    ListReturn(h, "ReadingsByValueDescriptor", limit,
               getReadingsLimit({r \in readings : r.name = name}, limit))

ReadingsByValueDescriptorNames(h, names, limit) ==
    ListReturn(h, "ReadingsByValueDescriptorNames", limit,
               getReadingsLimit({r \in readings : r.name \in names}, limit))

ReadingsByCreationTime(h, start, end, limit) ==
    ListReturn(h, "ReadingsByCreationTime", limit,
               getReadingsLimit({r \in readings : r.created >= start /\ r.created <= end},
                                limit))

ReadingsByDeviceAndValueDescriptor(h, deviceId, valueDescriptor, limit) ==
    ListReturn(h, "ReadingsByDeviceAndValueDescriptor", limit,
               getReadingsLimit({r \in readings : r.device = deviceId
                                                  /\ r.name = valueDescriptor}, limit))

\* time passes
Tick ==
    /\ now < MaxTime
    /\ now' = now + 1
    /\ UNCHANGED <<events, readings, vds, nextId, call, pc, loc>>

Init ==
    /\ events = {}
    /\ readings = {}
    /\ vds = {}
    /\ now = 1
    /\ nextId = FirstId - 1
    /\ call = [op |-> "newMongoClient", arg |-> NoId, err |-> OK, res |-> NoId,
               afterDelete |-> FALSE]
    /\ pc = [h \in Handles |-> "idle"]
    /\ loc = [h \in Handles |-> NoId]

\* The value-descriptor handlers, one call at a time
NextVD ==
    \/ Tick
    \/ \E v \in AddVDInputs : AddValueDescriptor(1, v)
    \/ \E v \in UpdateVDInputs : UpdateValueDescriptor(1, v)
    \/ \E s \in IdStrings : DeleteValueDescriptorById(1, s)
    \/ \E s \in IdStrings : ValueDescriptorById(1, s)
    \/ ValueDescriptors(1)
    \/ ScrubAllValueDescriptors(1)

SpecVD == Init /\ [][NextVD]_vars

\* The event handlers that write, and the by-id reads, one call at a time
NextEv ==
    \/ Tick
    \/ \E e \in AddEventInputs : AddEventReadings(1, e)
    \/ AddEventInsert(1)
    \/ \E e \in UpdateEventInputs : UpdateEvent(1, e)
    \/ \E s \in IdStrings : EventById(1, s)

SpecEv == Init /\ [][NextEv]_vars

\* The list operations that take a limit, over the events and readings that
\* AddEvent and the deletes leave
NextList ==
    \/ Tick
    \/ \E e \in AddEventInputs : AddEventReadings(1, e)
    \/ AddEventInsert(1)
    \/ \E s \in IdStrings : DeleteReadingById(1, s)
    \/ \E d \in Devices, l \in Limits : EventsForDeviceLimit(1, d, l)
    \/ \E t1 \in Times, t2 \in Times, l \in Limits : EventsByCreationTime(1, t1, t2, l)
    \/ \E d \in Devices, l \in Limits : ReadingsByDevice(1, d, l)
    \/ \E n \in Names, l \in Limits : ReadingsByValueDescriptor(1, n, l)
    \/ \E ns \in SUBSET Names, l \in Limits : ReadingsByValueDescriptorNames(1, ns, l)
    \/ \E t1 \in Times, t2 \in Times, l \in Limits : ReadingsByCreationTime(1, t1, t2, l)
    \/ \E d \in Devices, n \in Names, l \in Limits :
          ReadingsByDeviceAndValueDescriptor(1, d, n, l)

SpecList == Init /\ [][NextList]_vars

\* AddEvent and the query by age, with the clock running between and inside
\* the calls, one call at a time
NextAge ==
    \/ Tick
    \/ \E e \in AddEventInputs : AddEventReadings(1, e)
    \/ AddEventInsert(1)
    \/ \E a \in Ages : EventsOlderThanAge(1, a)

SpecAge == Init /\ [][NextAge]_vars

\* The operations keyed by an id string on the three collections, with the
\* handlers that create the documents, one call at a time
Next ==
    \/ \E e \in AddEventInputs : AddEventReadings(1, e)
    \/ AddEventInsert(1)
    \/ \E v \in AddVDInputs : AddValueDescriptor(1, v)
    \/ \E s \in IdStrings : EventById(1, s)
    \/ \E s \in IdStrings : ReadingById(1, s)
    \/ \E s \in IdStrings : ValueDescriptorById(1, s)
    \/ \E s \in IdStrings : DeleteEventById(1, s)
    \/ \E s \in IdStrings : DeleteReadingById(1, s)
    \/ \E s \in IdStrings : DeleteValueDescriptorById(1, s)

Spec == Init /\ [][Next]_vars

-----------------------------------------------------------------------------
(* Value-descriptor handlers on concurrent session copies: the store's     *)
(* operations are atomic, a handler's two store operations are two steps.  *)

\* UpdateValueDescriptor up to its first store operation (lines 488-502)
UpdateValueDescriptorFind(h, vin) ==
    /\ pc[h] = "idle"
    /\ \E c \in NameCheck(vds, vin) :
          IF c.next = "return"
          THEN /\ Return("UpdateValueDescriptor", NoId, c.err, NoId)
               /\ UNCHANGED <<pc, loc>>
          ELSE /\ pc' = [pc EXCEPT ![h] = "UpdateId"]
               /\ loc' = [loc EXCEPT ![h] = vin]
               /\ UNCHANGED call
    /\ UNCHANGED <<events, readings, vds, now, nextId>>

\* ... and from there to its return (lines 504-510)
UpdateValueDescriptorUpdateId(h) ==
    /\ pc[h] = "UpdateId"
    /\ \E o \in UpdateId(vds, [loc[h] EXCEPT !.modified = now]) :
          /\ vds' = o.coll
          /\ Return("UpdateValueDescriptor", NoId, o.err, NoId)
    /\ pc' = [pc EXCEPT ![h] = "idle"]
    /\ loc' = [loc EXCEPT ![h] = NoId]
    /\ UNCHANGED <<events, readings, now, nextId>>

NextConc ==
    \/ Tick
    \/ \E h \in Handles, v \in AddVDInputs : AddValueDescriptor(h, v)
    \/ \E h \in Handles, v \in UpdateVDInputs : UpdateValueDescriptorFind(h, v)
    \/ \E h \in Handles : UpdateValueDescriptorUpdateId(h)
    \/ \E h \in Handles, s \in IdStrings : DeleteValueDescriptorById(h, s)
    \/ \E h \in Handles : ScrubAllValueDescriptors(h)

ConcSpec == Init /\ [][NextConc]_vars

-----------------------------------------------------------------------------
(* Properties of the value-descriptor handlers *)

NameCount(coll, name) == Cardinality(VDsByName(coll, name))

\* C1: AddValueDescriptor called with a name a stored value descriptor already
\* has returns ErrNotUnique (the store's own error if the upsert itself fails)
\* and leaves exactly one stored value descriptor with that name.
C1_DuplicateNameNotUnique ==
    [][call'.op = "AddValueDescriptor" =>
       \A v \in AddVDInputs :
          (VDsByName(vds, v.name) # {} /\ AddValueDescriptor(1, v))
          => /\ call'.err \in {ErrNotUnique, ErrStore}
             /\ NameCount(vds', v.name) = 1]_vars

C1_Witness ==
    /\ call.op = "AddValueDescriptor"
    /\ call.err = ErrNotUnique
    /\ \E n \in Names : NameCount(vds, n) = 1

\* C2: when AddValueDescriptor returns ErrNotUnique, every field of the stored
\* value descriptor with that name is the same after the call as before it.
C2_PayloadNotApplied ==
    [][(call'.op = "AddValueDescriptor" /\ call'.err = ErrNotUnique) =>
       \A v \in AddVDInputs :
          AddValueDescriptor(1, v)
          => VDsByName(vds', v.name) = VDsByName(vds, v.name)]_vars

\* C3: no two stored value descriptors have the same name, in every state
\* reachable by Add/Update/Delete/Scrub calls running on concurrent handles.
C3_NameUnique ==
    \A d1 \in vds, d2 \in vds : d1.name = d2.name => d1 = d2

-----------------------------------------------------------------------------
(* Properties of the event and reading handlers *)

\* The ids of the documents of the three collections
StoredIds == {d.id : d \in events} \cup {d.id : d \in readings} \cup {d.id : d \in vds}

Fresh(id) == id > nextId /\ id \notin StoredIds

\* C4: after a successful AddEvent of an event with n readings the event has a
\* new id and the current time as creation time, and exactly n new documents are
\* in the reading collection, each with a new id, the event's creation time and
\* the event's device, whatever the caller had put there.
C4_AddEventStampsReadings ==
    [][/\ (pc[1] = "idle" /\ pc'[1] = "InsertEvent") =>
             \A ein \in AddEventInputs :
                AddEventReadings(1, ein) =>
                   LET e == loc'[1]
                       n == Len(ein.readings)
                   IN /\ Fresh(e.id) /\ e.created = now /\ e.device = ein.device
                      /\ Len(e.readings) = n
                      /\ readings \subseteq readings'
                      /\ readings' \ readings = {e.readings[k] : k \in 1..n}
                      /\ Cardinality(readings' \ readings) = n
                      /\ \A k \in 1..n :
                            /\ Fresh(e.readings[k].id)
                            /\ e.readings[k].id # e.id
                            /\ e.readings[k].created = e.created
                            /\ e.readings[k].device = e.device
                            /\ e.readings[k].name = ein.readings[k].name
       /\ (pc[1] = "InsertEvent" /\ pc'[1] = "idle" /\ call'.err = OK) =>
             /\ call'.op = "AddEvent" /\ call'.res = loc[1].id
             /\ readings' = readings
             /\ events' \ events = {ToMongoEvent(loc[1])}
             /\ \A k \in 1..Len(loc[1].readings) : loc[1].readings[k] \in readings'
      ]_vars

C4_Witness ==
    /\ call.op = "AddEvent" /\ call.err = OK
    /\ \E e \in events :
          /\ e.id = call.res
          /\ Len(e.readings) = MaxReadings
          /\ \A k \in 1..Len(e.readings) :
                \E r \in readings : r.id = e.readings[k] /\ r.created = e.created
                                    /\ r.device = e.device

\* The list operations that take a limit
LimitOps == {"EventsForDeviceLimit", "EventsByCreationTime", "ReadingsByDevice",
             "ReadingsByValueDescriptor", "ReadingsByValueDescriptorNames",
             "ReadingsByCreationTime", "ReadingsByDeviceAndValueDescriptor"}

\* C5: every list operation that takes a limit returns an empty result and no
\* error when the limit is 0, whatever documents are stored.
C5_LimitZeroEmpty ==
    (call.op \in LimitOps /\ call.arg = 0) => (call.err = OK /\ call.res = {})

C5_Witness ==
    /\ call.op \in LimitOps /\ call.arg = 0
    /\ call.err = OK /\ call.res = {}
    /\ events # {} /\ readings # {}

\* C6: for each of the three collections, a get-by-id that directly follows a
\* successful delete-by-id of the same id returns ErrNotFound (the store's own
\* error if the query itself fails).
C6_DeleteThenGetNotFound ==
    [][(/\ call.op \in DeleteOps /\ call.err = OK
        /\ call'.op \in GetOps /\ call.op = DeleteOf(call'.op)
        /\ IsObjectIdHex(call'.arg)
        /\ ObjectIdHex(call'.arg) = ObjectIdHex(call.arg))
       => call'.err \in {ErrNotFound, ErrStore}]_vars

C6_Witness == call.afterDelete /\ call.err = ErrNotFound

\* The readings EventById returns for the event with this id
EventReadings(ecoll, rcoll, id) ==
    IF \E me \in DocsById(ecoll, id) : CanDeref(me, rcoll)
    THEN FromMongoEvent(CHOOSE me \in DocsById(ecoll, id) : CanDeref(me, rcoll),
                        rcoll).readings
    ELSE <<"no event">>

\* C7: UpdateEvent changes neither the readings EventById returns for any event
\* nor the reading collection.
C7_UpdateEventKeepsReadings ==
    [][(call'.op = "UpdateEvent" /\ call'.err = OK) =>
          /\ readings' = readings
          /\ \A i \in Ids : EventReadings(events', readings', i)
                            = EventReadings(events, readings, i)]_vars

\* C8: every operation keyed by an id string returns ErrInvalidObjectId when the
\* string is not a well-formed id, and leaves the three collections unchanged.
C8_InvalidIdRejected ==
    [][(call'.op \in GetOps \cup DeleteOps /\ ~IsObjectIdHex(call'.arg))
       => /\ call'.err = ErrInvalidObjectId
          /\ UNCHANGED <<events, readings, vds>>]_vars

C8_Witness ==
    /\ call.op = "DeleteEventById" /\ ~IsObjectIdHex(call.arg)
    /\ call.err = ErrInvalidObjectId
    /\ events # {}

\* C10: AddEvent inserts the readings before the event.  If the readings insert
\* fails AddEvent returns the error and the event is not inserted; if it succeeds
\* and the event insert fails, AddEvent returns the error, the event is not in
\* the event collection and the readings stay in the reading collection.
C10_ReadingsBeforeEvent ==
    [][/\ \* an event is inserted only by a handler whose readings are stored
          (\E d \in events' : DocsById(events, d.id) = {}) =>
             /\ pc[1] = "InsertEvent"
             /\ \A k \in 1..Len(loc[1].readings) : loc[1].readings[k] \in readings
       /\ \* between the two inserts: the readings are stored, the event is not
          (pc'[1] = "InsertEvent") =>
             /\ DocsById(events', loc'[1].id) = {}
             /\ \A k \in 1..Len(loc'[1].readings) : loc'[1].readings[k] \in readings'
       /\ \* the readings insert fails
          (pc[1] = "idle" /\ pc'[1] = "idle" /\ nextId' # nextId) =>
             /\ call'.op = "AddEvent" /\ call'.err = ErrStore
             /\ events' = events
             /\ DocsById(events', call'.res) = {}
       /\ \* the event insert fails
          (pc[1] = "InsertEvent" /\ pc'[1] = "idle" /\ call'.err # OK) =>
             /\ call'.op = "AddEvent" /\ call'.err = ErrStore
             /\ events' = events
             /\ DocsById(events', loc[1].id) = {}
             /\ readings' = readings
             /\ \A k \in 1..Len(loc[1].readings) : loc[1].readings[k] \in readings'
      ]_vars

C10_Witness ==
    /\ call.op = "AddEvent" /\ call.err = ErrStore
    /\ DocsById(events, call.res) = {}
    /\ \E r \in readings : r.id > call.res

\* ---- C11 ----
\* C11 as stated: EventsOlderThanAge(0) called right after a successful
\* AddEvent returns an empty result.
C11_OlderThanAgeZeroEmpty ==
    (call.op = "EventsOlderThanAge" /\ call.arg = 0 /\ call.afterAdd # NoId)
    => call.res = {}

\* C11 as amended: EventsOlderThanAge(0) called right after a successful
\* AddEvent, when the store answers, returns the just-added event exactly if
\* the clock has moved past the creation time AddEvent stamped; it leaves the
\* event out only while the clock still reads that time. Everything it
\* returns was created strictly before the clock reading of the call.
C11_OlderThanAgeZeroByClock ==
    [][(call'.op = "EventsOlderThanAge" /\ call'.arg = 0 /\ call'.err = OK
        /\ JustAdded # NoId /\ EventsOlderThanAge(1, 0))
       => /\ \A me \in DocsById(events, JustAdded) :
                (\E x \in call'.res : x.id = me.id) <=> (me.created < now)
          /\ \A x \in call'.res : x.created < now]_vars

C11_Witness ==
    /\ call.op = "EventsOlderThanAge" /\ call.arg = 0 /\ call.err = OK
    /\ call.afterAdd # NoId
    /\ \E me \in DocsById(events, call.afterAdd) : me.created = now
    /\ call.res = {}

====
